---- MODULE Spec2Model ----
(***************************************************************************)
(* Model of the unix WebContext of wry (src/src/webview/web_context.rs):   *)
(* the WebviewUriLoader (single-flight lock + FIFO queue of pending uri    *)
(* loads) and the load-changed closures it connects to the webviews.       *)
(*                                                                         *)
(* WebContext holds an Rc<WebviewUriLoader>, so it is neither Send nor     *)
(* Sync: every operation and every engine callback runs on the one GTK     *)
(* main thread, and each of them is one atomic action here.                *)
(***************************************************************************)
EXTENDS Integers, Sequences, FiniteSets, TLC

\* ---------------------------------------------------------------- bounds
\* Total number of queue_load_uri calls in a behaviour.
MaxPush == 4

\* The webviews sharing the context, the uris they are asked to load, and
\* the variants of webkit2gtk::LoadEvent.
Webviews == {"w1", "w2"}
Urls == {"a", "b"}
LoadEvents == {"Started", "Redirected", "Committed", "Finished"}

\* Total number of register_uri_scheme calls in a behaviour, and the number
\* of queue_load_uri calls in the behaviours that also register protocols.
MaxRegister == 2
MaxCtxPush == 1

\* Number of automation sessions the engine starts on one context.
MaxSessions == 1
MaxMultiPush == 3
MaxWindows == 2
MaxRacePush == 3
MaxRequests == 2

\* The WebContext instances of the process, the custom protocol names the
\* application registers, and what a protocol request and its handler can
\* be: the requested path, the handler's Ok((buffer, mime)) or Err(error).
Contexts == {"c1", "c2"}

\* The callers whose register_uri_scheme calls may overlap.
Callers == {"t1", "t2"}
Names == {"app", "wry"}
Paths == {"index"}
Buffers == {<<>>, <<104, 105>>}
Mimes == {"text/html"}
HandlerErrors == {"No such file", "Permission denied"}

\* Option<T>: None is the empty sequence, Some(x) is <<x>>.
None == <<>>
Some(x) == <<x>>

VARIABLES
  lock,      \* WebviewUriLoader.lock : AtomicBool
  queue,     \* WebviewUriLoader.queue : VecDeque<(Rc<WebView>, Url)>
  handlers,  \* per webview: the load-changed closures connected to it, in
             \* connection order; each entry counts how often that closure
             \* ran its Finished branch
  pending,   \* per webview: load_uri calls whose Finished event is still due
  loadLog,   \* history: the load_uri calls issued, in order
  pushLog,   \* history: the queue_load_uri calls made, in order
  last,      \* history: the operation that led to this state, with the
             \* lock, queue, number of loads and of active loads before it
  contexts,  \* per WebContext: the fields of its WebContextImpl
  protocols, \* the Mutex<HashSet<String>> objects, by the context that made them
  engine,    \* the webkit2gtk WebContext objects, by the context that made them
  regLog,    \* history: the register_uri_scheme calls and what they returned
  panicked,  \* a closure of the crate has panicked inside an engine callback
  calls,     \* per caller: its register_uri_scheme or flush call in progress
  other,     \* the WebviewUriLoader made by the second WebContext
  app,       \* the event loop target, the WindowBuilder and the windows built
  win        \* a Window, its request channel and its gdk window

loaderVars == <<lock, queue, handlers, pending, loadLog, pushLog, other>>
ctxVars == <<contexts, protocols, engine, regLog, panicked, calls>>
vars == <<lock, queue, handlers, pending, loadLog, pushLog, last,
          contexts, protocols, engine, regLog, panicked, calls, other, app, win>>

\* The loader and engine state the operations below transform.
State == [lock |-> lock, queue |-> queue, handlers |-> handlers,
          pending |-> pending, loadLog |-> loadLog]

\* ------------------------------------------------------- WebviewUriLoader
\* self.lock.swap(true, SeqCst): returns the old value, leaves the lock set.
is_locked_without_swap(st) == [ret |-> st.lock, st |-> st]
is_locked_negated(st) == [ret |-> ~st.lock, st |-> [st EXCEPT !.lock = TRUE]]
is_locked(st) == [ret |-> st.lock, st |-> [st EXCEPT !.lock = TRUE]]

\* self.lock.store(false, SeqCst)
unlock(st) == [st EXCEPT !.lock = FALSE]

\* queue.push_back((webview, url))
push_front(st, webview, url) == [st EXCEPT !.queue = <<<<webview, url>>>> \o @]
push(st, webview, url) == [st EXCEPT !.queue = Append(@, <<webview, url>>)]

\* queue.pop_front()
pop_back(st) ==
  IF st.queue = <<>>
  THEN [ret |-> None, st |-> st]
  ELSE [ret |-> Some(st.queue[Len(st.queue)]),
        st |-> [st EXCEPT !.queue = SubSeq(@, 1, Len(@) - 1)]]
pop_peek(st) ==
  IF st.queue = <<>>
  THEN [ret |-> None, st |-> st]
  ELSE [ret |-> Some(Head(st.queue)), st |-> st]
pop(st) ==
  IF st.queue = <<>>
  THEN [ret |-> None, st |-> st]
  ELSE [ret |-> Some(Head(st.queue)), st |-> [st EXCEPT !.queue = Tail(@)]]

\* webview.connect_load_changed(closure): the closure stays connected to the
\* webview; it is appended after the closures connected earlier.
connect_load_changed(st, webview) ==
  [st EXCEPT !.handlers[webview] = Append(@, 0)]

\* webview.load_uri(url): the engine starts a navigation, which ends with
\* one Finished load event of that webview.
load_uri(st, webview, url) ==
  [st EXCEPT !.pending[webview] = @ + 1,
             !.loadLog = Append(@, <<webview, url>>)]

\* WebviewUriLoader::flush. When the queue is empty there is no else branch:
\* the lock that is_locked has just set stays set.
flush(st) ==
  LET l == is_locked(st) IN
  IF ~l.ret
  THEN LET p == pop(l.st) IN
       IF p.ret # None
       THEN LET webview == p.ret[1][1]
                url == p.ret[1][2]
            IN load_uri(connect_load_changed(p.st, webview), webview, url)
       ELSE p.st
  ELSE l.st

\* The closure flush connects: the i-th closure of `webview` receives `event`.
load_changed_closure_any_event(st, webview, i, event) ==
  flush(unlock([st EXCEPT !.handlers[webview][i] = @ + 1]))
load_changed_closure_no_flush(st, webview, i, event) ==
  IF event = "Finished"
  THEN unlock([st EXCEPT !.handlers[webview][i] = @ + 1])
  ELSE st
load_changed_closure(st, webview, i, event) ==
  IF event = "Finished"
  THEN flush(unlock([st EXCEPT !.handlers[webview][i] = @ + 1]))
  ELSE st

\* Emission of the load-changed signal: the closures connected when the
\* emission starts run in connection order; a closure connected during the
\* emission does not run in it.
RECURSIVE RunHandlers(_, _, _, _, _)
RunHandlers(st, webview, event, i, n) ==
  IF i > n
  THEN st
  ELSE RunHandlers(load_changed_closure(st, webview, i, event),
                   webview, event, i + 1, n)

emit_load_changed(st, webview, event) ==
  RunHandlers(st, webview, event, 1, Len(st.handlers[webview]))

\* #[derive(Default)] of WebviewUriLoader, with the history of its pushes and
\* dispatches.
NewLoader == [lock |-> FALSE, queue |-> <<>>, loadLog |-> <<>>, pushLog |-> <<>>]

\* ----------------------------------------------------------------- windows
\* The two Window implementations: application/window.rs (GTK) and
\* application/window/macos.rs.
Platforms == {"gtk", "macos"}

Titles == {"winit window", "Hello World"}
Sizes == {<<800, 600>>}
Fullscreens == {"Borderless"}
Icons == {"icon"}

WindowId(id) == id

\* impl Default for WindowAttributes
WindowAttributes_default_hidden ==
  [inner_size |-> None, min_inner_size |-> None, max_inner_size |-> None,
   resizable |-> TRUE, title |-> "winit window", maximized |-> FALSE,
   fullscreen |-> None, visible |-> FALSE, transparent |-> FALSE,
   decorations |-> TRUE, always_on_top |-> FALSE, window_icon |-> None]
WindowAttributes_default ==
  [inner_size |-> None, min_inner_size |-> None, max_inner_size |-> None,
   resizable |-> TRUE, title |-> "winit window", maximized |-> FALSE,
   fullscreen |-> None, visible |-> TRUE, transparent |-> FALSE,
   decorations |-> TRUE, always_on_top |-> FALSE, window_icon |-> None]

\* WindowBuilder::new: Default::default(), i.e. window: Default::default()
WindowBuilder_new == [window |-> WindowAttributes_default]

\* The WindowBuilder setters
with_inner_size(b, size) == [b EXCEPT !.window.inner_size = Some(size)]
with_min_inner_size(b, size) == [b EXCEPT !.window.min_inner_size = Some(size)]
with_max_inner_size(b, size) == [b EXCEPT !.window.max_inner_size = Some(size)]
with_resizable(b, resizable) == [b EXCEPT !.window.resizable = resizable]
with_title(b, title) == [b EXCEPT !.window.title = title]
with_fullscreen(b, fullscreen) == [b EXCEPT !.window.fullscreen = fullscreen]
with_maximized(b, maximized) == [b EXCEPT !.window.maximized = maximized]
with_visible(b, visible) == [b EXCEPT !.window.visible = visible]
with_transparent(b, transparent) == [b EXCEPT !.window.transparent = transparent]
with_decorations(b, decorations) == [b EXCEPT !.window.decorations = decorations]
with_always_on_top(b, top) == [b EXCEPT !.window.always_on_top = top]
with_window_icon(b, icon) == [b EXCEPT !.window.window_icon = icon]

\* The event loop target of a new application on `platform`: no window, and
\* the GTK application has handed out no window id; no WindowBuilder yet.
NewApp(platform) ==
  [platform |-> platform, windows |-> {}, last_window_id |-> 0,
   builder |-> None, created |-> <<>>]

\* gtk::ApplicationWindow::new(app) followed by window.get_id(): the GTK
\* application numbers the windows added to it 1, 2, ...
gtk_get_id(a) == a.last_window_id + 1

\* Window::new of the platform: the id of the new window, its insertion in
\* the windows set of the event loop target, and the Window returned.
Window_new_gtk(a, attributes) ==
  LET window_id == WindowId(gtk_get_id(a))
  IN [a EXCEPT !.last_window_id = gtk_get_id(a),
               !.windows = @ \cup {window_id},
               !.created = Append(@, [window_id |-> window_id,
                                      title |-> attributes.title])]

Window_new_macos(a, attributes) ==
  LET window_id == WindowId(0)
  IN [a EXCEPT !.windows = @ \cup {window_id},
               !.created = Append(@, [window_id |-> window_id,
                                      title |-> attributes.title])]

Window_new(a, attributes) ==
  IF a.platform = "gtk"
  THEN Window_new_gtk(a, attributes)
  ELSE Window_new_macos(a, attributes)

\* ---------------------------------------------------------- Window methods
\* window.get_scale_factor() (GTK) / window.backing_scale_factor() (macOS)
ScaleFactors == {1, 2}

\* Position and Size arguments: Physical or Logical, with their two numbers.
Physical(a, b) == <<"Physical", <<a, b>>>>
Logical(a, b) == <<"Logical", <<a, b>>>>
PositionArgs == {Physical(2, 4), Logical(2, 4)}
SizeArgs == {Physical(3, 3), Logical(4, 2)}
AttentionTypes == {"Critical"}

\* f64::round of a / b for a >= 0, b > 0 (Pixel::cast of the quotient)
RoundDiv(a, b) == (2 * a + b) \div (2 * b)

\* Position::to_physical::<i32>(scale_factor) and
\* Size::to_logical::<i32>(scale_factor)
to_physical(p, scale_factor) ==
  IF p[1] = "Physical"
  THEN p[2]
  ELSE <<p[2][1] * scale_factor, p[2][2] * scale_factor>>
to_logical(s, scale_factor) ==
  IF s[1] = "Logical"
  THEN s[2]
  ELSE <<RoundDiv(s[2][1], scale_factor), RoundDiv(s[2][2], scale_factor)>>

\* AtomicBool / AtomicI32 store and load: std panics on an ordering that
\* does not exist for the operation ("there is no such thing as an acquire
\* store" / "a release load").
Panic == [panic |-> TRUE]
Return(value) == [panic |-> FALSE, value |-> value]
atomic_store(value, ordering) ==
  IF ordering \in {"Acquire", "AcqRel"} THEN Panic ELSE Return(value)
atomic_load(value, ordering) ==
  IF ordering \in {"Release", "AcqRel"} THEN Panic ELSE Return(value)

\* The gdk window of a Window: its position and its size.
DefaultGdkWindow == [left |-> 0, top |-> 0, width |-> 12, height |-> 12]

\* The Window that Window::new returns, the channel its window_requests_tx
\* sends on (whose receiver the event loop holds), and its gdk window with
\* the cursor last set on it and the resize drag begun on it.
NewWindow(platform, window_id, scale_factor, maximized, gdk) ==
  [platform |-> platform, window_id |-> window_id,
   scale_factor |-> scale_factor, position |-> <<0, 0>>, size |-> <<8, 6>>,
   maximized |-> maximized, fullscreen |-> None,
   requests |-> <<>>, receiver |-> TRUE,
   gdk |-> gdk, cursor |-> "-", resize_drag |-> None]

\* self.window_requests_tx.send((self.window_id, request)): an Err (the
\* receiver is gone) is logged, nothing else.
send(w, request) ==
  IF w.receiver
  THEN [w EXCEPT !.requests = Append(@, <<w.window_id, request>>)]
  ELSE w

\* The getters: what they return, or Panic.
inner_position(w) ==
  Return(<<atomic_load(w.position[1], "Acquire").value,
           atomic_load(w.position[2], "Acquire").value>>)
outer_position(w) ==
  Return(<<atomic_load(w.position[1], "Acquire").value,
           atomic_load(w.position[2], "Acquire").value>>)
inner_size(w) ==
  Return(<<atomic_load(w.size[1], "Acquire").value,
           atomic_load(w.size[2], "Acquire").value>>)
outer_size(w) ==
  Return(<<atomic_load(w.size[1], "Acquire").value,
           atomic_load(w.size[2], "Acquire").value>>)
is_maximized_macos(w) == atomic_load(w.maximized, "Acquire")
is_maximized_gtk(w) == atomic_load(w.maximized, "Release")
is_maximized(w) ==
  IF w.platform = "gtk" THEN is_maximized_gtk(w) ELSE is_maximized_macos(w)
fullscreen(w) == Return(w.fullscreen)

\* The setters: the Window after the call, or Panic. The GTK Window stores
\* position, size and maximized before it sends; the macOS Window only sends.
Window_set_outer_position(w, position) ==
  LET xy == to_physical(position, w.scale_factor)
      stored == IF w.platform = "gtk"
                THEN [w EXCEPT !.position =
                        <<atomic_store(xy[1], "Release").value,
                          atomic_store(xy[2], "Release").value>>]
                ELSE w
  IN Return(send(stored, <<"Position", xy>>))
Window_set_inner_size(w, size) ==
  LET wh == to_logical(size, w.scale_factor)
      stored == IF w.platform = "gtk"
                THEN [w EXCEPT !.size =
                        <<atomic_store(wh[1], "Release").value,
                          atomic_store(wh[2], "Release").value>>]
                ELSE w
  IN Return(send(stored, <<"Size", wh>>))
Window_set_min_inner_size(w, min_size) ==
  IF min_size # None
  THEN Return(send(w, <<"MinSize", to_logical(min_size[1], w.scale_factor)>>))
  ELSE Return(w)
Window_set_max_inner_size(w, max_size) ==
  IF max_size # None
  THEN Return(send(w, <<"MaxSize", to_logical(max_size[1], w.scale_factor)>>))
  ELSE Return(w)
Window_set_title(w, title) == Return(send(w, <<"Title", title>>))
Window_set_visible(w, visible) == Return(send(w, <<"Visible", visible>>))
Window_set_resizable(w, resizable) ==
  Return(send(w, <<"Resizable", resizable>>))
Window_set_minimized(w, minimized) ==
  Return(send(w, <<"Minimized", minimized>>))
Window_set_maximized_macos(w, maximized) ==
  Return(send(w, <<"Maximized", maximized>>))
Window_set_maximized_gtk(w, maximized) ==
  LET stored == atomic_store(maximized, "Acquire")
  IN IF stored.panic
     THEN Panic
     ELSE Return(send([w EXCEPT !.maximized = stored.value],
                      <<"Maximized", maximized>>))
Window_set_maximized(w, maximized) ==
  IF w.platform = "gtk"
  THEN Window_set_maximized_gtk(w, maximized)
  ELSE Window_set_maximized_macos(w, maximized)
Window_drag_window(w) == Return(send(w, <<"DragWindow">>))
Window_set_fullscreen(w, fs) ==
  Return(send([w EXCEPT !.fullscreen = fs], <<"Fullscreen", fs>>))
Window_set_decorations(w, decorations) ==
  Return(send(w, <<"Decorations", decorations>>))
Window_set_always_on_top(w, always_on_top) ==
  Return(send(w, <<"AlwaysOnTop", always_on_top>>))
Window_set_window_icon(w, window_icon) ==
  Return(send(w, <<"WindowIcon", window_icon>>))
Window_request_user_attention(w, request_type) ==
  Return(send(w, <<"UserAttention", request_type>>))

\* ---------------------------------------------------------------- hit_test
\* Bitwise or of two non-negative integers
RECURSIVE BitOr(_, _)
BitOr(a, b) ==
  IF a = 0 THEN b
  ELSE IF b = 0 THEN a
  ELSE 2 * BitOr(a \div 2, b \div 2) + (IF a % 2 = 1 \/ b % 2 = 1 THEN 1 ELSE 0)

fake_border == 5
LEFT == 1
RIGHT == 2
TOP == 4
BOTTOM == 8
TOPLEFT == BitOr(TOP, LEFT)
TOPRIGHT == BitOr(TOP, RIGHT)
BOTTOMLEFT == BitOr(BOTTOM, LEFT)
BOTTOMRIGHT == BitOr(BOTTOM, RIGHT)
\* A gdk::WindowEdge variant; __Unknown carries its integer
WindowEdge(variant) == <<variant>>
Unknown(n) == <<"__Unknown", n>>

\* `let result = LEFT * (if ..) | RIGHT * (if ..) | TOP * (..) | BOTTOM * (..)`
\* for a cursor at integer coordinates (cx as i32 = cx).
hit_test_result_right_exclusive(g, cx, cy) ==
  LET right == g.left + g.width
      bottom == g.top + g.height
  IN BitOr(BitOr(BitOr(
       LEFT * (IF cx < g.left + fake_border THEN 1 ELSE 0),
       RIGHT * (IF cx > right - fake_border THEN 1 ELSE 0)),
       TOP * (IF cy < g.top + fake_border THEN 1 ELSE 0)),
       BOTTOM * (IF cy >= bottom - fake_border THEN 1 ELSE 0))
hit_test_result(g, cx, cy) ==
  LET right == g.left + g.width
      bottom == g.top + g.height
  IN BitOr(BitOr(BitOr(
       LEFT * (IF cx < g.left + fake_border THEN 1 ELSE 0),
       RIGHT * (IF cx >= right - fake_border THEN 1 ELSE 0)),
       TOP * (IF cy < g.top + fake_border THEN 1 ELSE 0)),
       BOTTOM * (IF cy >= bottom - fake_border THEN 1 ELSE 0))

\* `let edge = match result { .. }`
hit_test_edge(result) ==
  CASE result = LEFT -> WindowEdge("West")
    [] result = TOP -> WindowEdge("North")
    [] result = RIGHT -> WindowEdge("East")
    [] result = BOTTOM -> WindowEdge("South")
    [] result = TOPLEFT -> WindowEdge("NorthWest")
    [] result = TOPRIGHT -> WindowEdge("NorthEast")
    [] result = BOTTOMLEFT -> WindowEdge("SouthWest")
    [] result = BOTTOMRIGHT -> WindowEdge("SouthEast")
    [] OTHER -> Unknown(8)

\* The cursor hit_test sets on the window for an edge
hit_test_cursor(edge) ==
  CASE edge \in {WindowEdge("North"), WindowEdge("South")} -> "SbVDoubleArrow"
    [] edge \in {WindowEdge("East"), WindowEdge("West")} -> "SbHDoubleArrow"
    [] edge = WindowEdge("NorthWest") -> "TopLeftCorner"
    [] edge = WindowEdge("NorthEast") -> "TopRightCorner"
    [] edge = WindowEdge("SouthEast") -> "BottomRightCorner"
    [] edge = WindowEdge("SouthWest") -> "BottomLeftCorner"
    [] OTHER -> "LeftPtr"

\* hit_test(window, cx, cy): the edge returned and the window with its cursor
hit_test(w, cx, cy) ==
  LET edge == hit_test_edge(hit_test_result(w.gdk, cx, cy))
  IN [edge |-> edge, w |-> [w EXCEPT !.cursor = hit_test_cursor(edge)]]

\* The closure connected to button-press-event
button_press_closure(w, button, cx, cy) ==
  IF button = 1
  THEN LET h == hit_test(w, cx, cy)
       IN IF h.edge # Unknown(8)
          THEN [h.w EXCEPT !.resize_drag = Some(<<h.edge, cx, cy>>)]
          ELSE h.w
  ELSE w

\* The closure connected to motion-notify-event
motion_notify_closure(w, cx, cy) == hit_test(w, cx, cy).w

\* ------------------------------------------------------------- WebContext
\* Result<()>: Ok(()) and the two errors register_uri_scheme returns.
Ok == <<"Ok">>
DuplicateCustomProtocol(name) == <<"Err", "DuplicateCustomProtocol", name>>
MissingManager == <<"Err", "MissingManager">>

\* WebContextImpl::new: every context builds its own engine context, its own
\* protocol set and its own loader; a field holds the identity of the object
\* made for it, which is the identity of the context that made it.
WebContextImpl_new_static_protocols(c) ==
  [context |-> c, registered_protocols |-> "c1", webview_uri_loader |-> c,
   automation |-> FALSE]
WebContextImpl_new_shared_loader(c) ==
  [context |-> c, registered_protocols |-> c, webview_uri_loader |-> "c1",
   automation |-> FALSE]
WebContextImpl_new(c) ==
  [context |-> c, registered_protocols |-> c, webview_uri_loader |-> c,
   automation |-> FALSE]

\* The protocol set of a new context is empty; its engine context has no
\* uri scheme registered, does not allow automation
\* (context.set_automation_allowed(false)) and has no automation session.
NewProtocols == {}
NewEngine(manager) ==
  [security_manager |-> manager, secure |-> {},
   uri_schemes |-> [n \in Names |-> <<>>],
   automation_allowed |-> FALSE, sessions |-> 0]

\* WebContextImpl::set_allows_automation on the fields `cx` and the engine
\* context `eng`.
WebContextImpl_set_allows_automation_engine_only(cx, eng, flag) ==
  [cx |-> cx, eng |-> [eng EXCEPT !.automation_allowed = flag]]
WebContextImpl_set_allows_automation(cx, eng, flag) ==
  [cx |-> [cx EXCEPT !.automation = flag],
   eng |-> [eng EXCEPT !.automation_allowed = flag]]

\* WebContextExt::allows_automation
allows_automation(cx) == cx.automation

\* The closure WebContextImpl::new connects to automation-started: it sets
\* the application info of the new session and connects the create-web-view
\* closure to it.
automation_started_closure(eng) == [eng EXCEPT !.sessions = @ + 1]

\* The closure connected to create-web-view: unimplemented!(), a panic.
create_web_view_closure_panics == TRUE

\* register_uri_scheme, first part: protocols.insert(name) under the mutex;
\* exists is true when the name was already in the set.
\* No register_uri_scheme call in progress.
Idle == [pc |-> "idle"]

insert_protocol_not_negated(set, name) ==
  [exists |-> name \notin set, set |-> set \cup {name}]
insert_protocol_replacing(set, name) ==
  [exists |-> name \in set, set |-> {name}]
insert_protocol_on_copy(set, name) ==
  [exists |-> name \in set, set |-> set]
insert_protocol(set, name) ==
  [exists |-> name \in set, set |-> set \cup {name}]

\* register_uri_scheme, second part, on the engine context `eng`: the
\* result, and for a new name the scheme marked secure and the request
\* closure (which owns `handler`) registered with the engine.
register_with_engine_before_check(eng, name, handler, exists) ==
  LET done == [eng EXCEPT !.secure = @ \cup {name},
                          !.uri_schemes[name] = Append(@, handler)]
  IN IF exists
     THEN [ret |-> DuplicateCustomProtocol(name), eng |-> done]
     ELSE IF ~eng.security_manager
     THEN [ret |-> MissingManager, eng |-> eng]
     ELSE [ret |-> Ok, eng |-> done]
register_with_engine(eng, name, handler, exists) ==
  IF exists
  THEN [ret |-> DuplicateCustomProtocol(name), eng |-> eng]
  ELSE IF ~eng.security_manager
  THEN [ret |-> MissingManager, eng |-> eng]
  ELSE [ret |-> Ok,
        eng |-> [eng EXCEPT !.secure = @ \cup {name},
                            !.uri_schemes[name] = Append(@, handler)]]

\* The closure register_uri_scheme registers, called by the engine for a
\* request: `uri` is request.get_uri() (an Option), `result` what the
\* handler returns for it. What the closure passes to request.finish or to
\* request.finish_error, and the uris it called the handler with.
FileErrorExist(message) == [domain |-> "FileError::Exist", message |-> message]
uri_scheme_request_closure_error_text(uri, result) ==
  IF uri # None
  THEN IF result[1] = "Ok"
       THEN [call |-> "finish", stream |-> result[2], length |-> Len(result[2]),
             mime |-> Some(result[3]), error |-> None,
             handler_calls |-> <<uri[1]>>]
       ELSE [call |-> "finish_error", stream |-> None, length |-> 0,
             mime |-> None, error |-> Some(FileErrorExist(result[2])),
             handler_calls |-> <<uri[1]>>]
  ELSE [call |-> "finish_error", stream |-> None, length |-> 0, mime |-> None,
        error |-> Some(FileErrorExist("Could not get uri.")),
        handler_calls |-> <<>>]
uri_scheme_request_closure_no_mime(uri, result) ==
  IF uri # None
  THEN IF result[1] = "Ok"
       THEN [call |-> "finish", stream |-> result[2], length |-> Len(result[2]),
             mime |-> None, error |-> None,
             handler_calls |-> <<uri[1]>>]
       ELSE [call |-> "finish_error", stream |-> None, length |-> 0,
             mime |-> None,
             error |-> Some(FileErrorExist("Could not get requested file.")),
             handler_calls |-> <<uri[1]>>]
  ELSE [call |-> "finish_error", stream |-> None, length |-> 0, mime |-> None,
        error |-> Some(FileErrorExist("Could not get uri.")),
        handler_calls |-> <<>>]
uri_scheme_request_closure(uri, result) ==
  IF uri # None
  THEN IF result[1] = "Ok"
       THEN [call |-> "finish", stream |-> result[2], length |-> Len(result[2]),
             mime |-> Some(result[3]), error |-> None,
             handler_calls |-> <<uri[1]>>]
       ELSE [call |-> "finish_error", stream |-> None, length |-> 0,
             mime |-> None,
             error |-> Some(FileErrorExist("Could not get requested file.")),
             handler_calls |-> <<uri[1]>>]
  ELSE [call |-> "finish_error", stream |-> None, length |-> 0, mime |-> None,
        error |-> Some(FileErrorExist("Could not get uri.")),
        handler_calls |-> <<>>]

\* The engine context after the closure registered for `name` has answered a
\* request with `response`: the closure is a Fn the engine keeps, and it
\* touches nothing but the request, so the engine is as it was.
engine_after_request_unregistering(eng, name, response) ==
  IF response.call = "finish_error"
  THEN [eng EXCEPT !.uri_schemes[name] = <<>>]
  ELSE eng
engine_after_request(eng, name, response) == eng

\* What a handler can return: Ok((buffer, mime)) or Err(error).
HandlerResults ==
  {<<"Ok", b, m>> : b \in Buffers, m \in Mimes}
    \cup {<<"Err", e>> : e \in HandlerErrors}

\* ----------------------------------------------------------------- helpers
RECURSIVE SumOver(_, _)
SumOver(f, S) ==
  IF S = {} THEN 0
  ELSE LET x == CHOOSE y \in S : TRUE IN f[x] + SumOver(f, S \ {x})

\* Dispatched navigations whose Finished event has not been received.
ActiveCount == SumOver(pending, Webviews)

\* The record kept in `last`: the operation, its arguments and results, and
\* the state it started from.
Record(op, webview, event, ctx, name, uri, ret, response) ==
  [op |-> op, webview |-> webview, event |-> event, lock |-> lock,
   queue |-> queue, loads |-> Len(loadLog), active |-> ActiveCount,
   ctx |-> ctx, name |-> name, uri |-> uri, ret |-> ret,
   response |-> response, protocols |-> protocols, engine |-> engine,
   other |-> other, contexts |-> contexts]

Snapshot(op, webview, event) ==
  Record(op, webview, event, "c1", "-", None, <<"-">>, "-")

CtxSnapshot(op, ctx, name, uri, ret, response) ==
  Record(op, "-", "-", ctx, name, uri, ret, response)

Install(st) ==
  /\ lock' = st.lock
  /\ queue' = st.queue
  /\ handlers' = st.handlers
  /\ pending' = st.pending
  /\ loadLog' = st.loadLog

\* ------------------------------------------------------------------- state
\* WebContextImpl::new: webview_uri_loader: Rc::default(), i.e. lock false
\* and an empty queue; no closure connected, nothing loading.
Init ==
  /\ lock = FALSE
  /\ queue = <<>>
  /\ handlers = [w \in Webviews |-> <<>>]
  /\ pending = [w \in Webviews |-> 0]
  /\ loadLog = <<>>
  /\ pushLog = <<>>
  /\ contexts = [c \in Contexts |-> WebContextImpl_new(c)]
  /\ protocols = [c \in Contexts |-> NewProtocols]
  /\ engine = [c \in Contexts |-> NewEngine(TRUE)]
  /\ regLog = <<>>
  /\ panicked = FALSE
  /\ calls = [t \in Callers |-> Idle]
  /\ other = NewLoader
  /\ app = NewApp("gtk")
  /\ win = NewWindow("gtk", 1, 1, FALSE, DefaultGdkWindow)
  /\ last = Snapshot("new", "-", "-")

\* WebContextExt::queue_load_uri
queue_load_uri(webview, url) ==
  /\ Len(pushLog) < MaxPush
  /\ Install(push(State, webview, url))
  /\ pushLog' = Append(pushLog, <<webview, url>>)
  /\ last' = Snapshot("queue_load_uri", webview, "-")
  /\ UNCHANGED <<other, ctxVars, app, win>>

\* WebContextExt::flush_queue_loader
flush_queue_loader ==
  /\ Install(flush(State))
  /\ last' = Snapshot("flush_queue_loader", "-", "-")
  /\ UNCHANGED pushLog
  /\ UNCHANGED <<other, ctxVars, app, win>>

\* The engine delivers a load event of a navigation in progress on `webview`;
\* Finished ends that navigation.
load_changed(webview, event) ==
  /\ pending[webview] > 0
  /\ LET st == IF event = "Finished"
               THEN [State EXCEPT !.pending[webview] = @ - 1]
               ELSE State
     IN Install(emit_load_changed(st, webview, event))
  /\ last' = Snapshot("load_changed", webview, event)
  /\ UNCHANGED pushLog
  /\ UNCHANGED <<other, ctxVars, app, win>>

Next ==
  \/ \E w \in Webviews, u \in Urls : queue_load_uri(w, u)
  \/ flush_queue_loader
  \/ \E w \in Webviews, e \in LoadEvents : load_changed(w, e)

Spec == Init /\ [][Next]_vars

\* The behaviours in which the engine delivers the Finished event of every
\* navigation it was asked for, and the application keeps calling
\* flush_queue_loader (in particular after every queue_load_uri).
LiveSpec ==
  /\ Spec
  /\ WF_vars(flush_queue_loader)
  /\ \A w \in Webviews : WF_vars(load_changed(w, "Finished"))

\* ------------------------------------------------------------ two contexts
\* The WebContext each webview was built with: its loads are queued on that
\* context, and the closures flush connects to it hold that context's loader.
WebviewContext == [w \in Webviews |-> IF w = "w1" THEN "c1" ELSE "c2"]

\* The loader object `l` (named by the context that made it) with the
\* webviews' load state.
LoaderState(l) ==
  IF l = "c1"
  THEN State
  ELSE [lock |-> other.lock, queue |-> other.queue, handlers |-> handlers,
        pending |-> pending, loadLog |-> other.loadLog]

InstallLoader(l, st, pushes) ==
  /\ handlers' = st.handlers
  /\ pending' = st.pending
  /\ IF l = "c1"
     THEN /\ lock' = st.lock
          /\ queue' = st.queue
          /\ loadLog' = st.loadLog
          /\ pushLog' = pushLog \o pushes
          /\ UNCHANGED other
     ELSE /\ other' = [lock |-> st.lock, queue |-> st.queue,
                       loadLog |-> st.loadLog,
                       pushLog |-> other.pushLog \o pushes]
          /\ UNCHANGED <<lock, queue, loadLog, pushLog>>

\* WebContextExt::queue_load_uri on context c
queue_load_uri_on(c, webview, url) ==
  /\ Len(pushLog) + Len(other.pushLog) < MaxMultiPush
  /\ LET l == contexts[c].webview_uri_loader
     IN InstallLoader(l, push(LoaderState(l), webview, url),
                      <<<<webview, url>>>>)
  /\ last' = Record("queue_load_uri", webview, "-", c, "-", None, <<"-">>, "-")
  /\ UNCHANGED <<ctxVars, app, win>>

\* WebContextExt::flush_queue_loader on context c
flush_queue_loader_on(c) ==
  /\ LET l == contexts[c].webview_uri_loader
     IN InstallLoader(l, flush(LoaderState(l)), <<>>)
  /\ last' = Record("flush_queue_loader", "-", "-", c, "-", None, <<"-">>, "-")
  /\ UNCHANGED <<ctxVars, app, win>>

\* The engine delivers a load event of a navigation in progress on `webview`
\* to the closures connected to it, which hold the loader of its context.
load_changed_on(webview, event) ==
  /\ pending[webview] > 0
  /\ LET c == WebviewContext[webview]
         l == contexts[c].webview_uri_loader
         st == IF event = "Finished"
               THEN [LoaderState(l) EXCEPT !.pending[webview] = @ - 1]
               ELSE LoaderState(l)
     IN /\ InstallLoader(l, emit_load_changed(st, webview, event), <<>>)
        /\ last' = Record("load_changed", webview, event, c, "-", None,
                          <<"-">>, "-")
  /\ UNCHANGED <<ctxVars, app, win>>

MultiNext ==
  \/ \E w \in Webviews, u \in Urls :
       queue_load_uri_on(WebviewContext[w], w, u)
  \/ \E c \in Contexts : flush_queue_loader_on(c)
  \/ \E w \in Webviews, e \in LoadEvents : load_changed_on(w, e)

MultiSpec == Init /\ [][MultiNext]_vars

\* --------------------------------------------------- protocol registration
\* A process whose engine contexts may or may not have a security manager.
CtxInit ==
  /\ lock = FALSE
  /\ queue = <<>>
  /\ handlers = [w \in Webviews |-> <<>>]
  /\ pending = [w \in Webviews |-> 0]
  /\ loadLog = <<>>
  /\ pushLog = <<>>
  /\ contexts = [c \in Contexts |-> WebContextImpl_new(c)]
  /\ protocols = [c \in Contexts |-> NewProtocols]
  /\ engine \in [Contexts -> {NewEngine(m) : m \in BOOLEAN}]
  /\ regLog = <<>>
  /\ panicked = FALSE
  /\ calls = [t \in Callers |-> Idle]
  /\ other = NewLoader
  /\ app = NewApp("gtk")
  /\ win = NewWindow("gtk", 1, 1, FALSE, DefaultGdkWindow)
  /\ last = Snapshot("new", "-", "-")

\* WebContextExt::register_uri_scheme on context c. The handler of the n-th
\* call of a behaviour is the closure n.
register_uri_scheme(c, name) ==
  /\ Len(regLog) < MaxRegister
  /\ LET handler == Len(regLog) + 1
         set == contexts[c].registered_protocols
         ctx == contexts[c].context
         i == insert_protocol(protocols[set], name)
         r == register_with_engine(engine[ctx], name, handler, i.exists)
     IN /\ protocols' = [protocols EXCEPT ![set] = i.set]
        /\ engine' = [engine EXCEPT ![ctx] = r.eng]
        /\ regLog' = Append(regLog, [ctx |-> c, name |-> name, ret |-> r.ret,
                                     start |-> Len(regLog)])
        /\ last' = CtxSnapshot("register_uri_scheme", c, name, None, r.ret, "-")
  /\ UNCHANGED <<contexts, panicked, calls, loaderVars, app, win>>

\* The engine of context c gets a request for a registered scheme and calls
\* the closure registered for it; the handler it owns returns `result` (it
\* is not called when the request has no uri).
NotCalled == <<"NotCalled">>
uri_scheme_request(c, name, uri, result) ==
  /\ engine[contexts[c].context].uri_schemes[name] # <<>>
  /\ LET response == uri_scheme_request_closure(uri, result)
         ctx == contexts[c].context
     IN /\ engine' = [engine EXCEPT ![ctx] =
                         engine_after_request(@, name, response)]
        /\ last' = CtxSnapshot("uri_scheme_request", c, name, uri, result,
                                response)
  /\ UNCHANGED <<contexts, protocols, regLog, panicked, calls, loaderVars, app, win>>

CtxNext ==
  \/ \E c \in Contexts, n \in Names : register_uri_scheme(c, n)
  \/ \E c \in Contexts, n \in Names, p \in Paths, r \in HandlerResults :
       uri_scheme_request(c, n, Some(<<n, p>>), r)
  \/ \E c \in Contexts, n \in Names :
       uri_scheme_request(c, n, None, NotCalled)
  \/ \E w \in Webviews :
       Len(pushLog) < MaxCtxPush /\ queue_load_uri(w, "a")
  \/ flush_queue_loader
  \/ \E w \in Webviews : load_changed(w, "Finished")

CtxSpec == CtxInit /\ [][CtxNext]_vars

\* ------------------------------------------------ overlapping registrations
\* register_uri_scheme calls of two callers that overlap: what one call does
\* while it holds the mutex of registered_protocols is one step, the rest of
\* the call is another.
InProgress == {t \in Callers : calls[t].pc # "idle"}

\* Caller t enters register_uri_scheme(name) on context c and runs it up to
\* drop(protocols).
register_insert(t, c, name) ==
  /\ calls[t].pc = "idle"
  /\ Len(regLog) + Cardinality(InProgress) < MaxRegister
  /\ LET set == contexts[c].registered_protocols
         i == insert_protocol(protocols[set], name)
     IN /\ protocols' = [protocols EXCEPT ![set] = i.set]
        /\ calls' = [calls EXCEPT ![t] =
                       [pc |-> "inserted", ctx |-> c, name |-> name,
                        handler |-> Len(regLog) + Cardinality(InProgress) + 1,
                        exists |-> i.exists, start |-> Len(regLog)]]
  /\ last' = CtxSnapshot("register_insert", c, name, None, <<"-">>, "-")
  /\ UNCHANGED <<contexts, engine, regLog, panicked, loaderVars, app, win>>

\* Caller t runs the rest of its call and returns.
register_return(t) ==
  /\ calls[t].pc = "inserted"
  /\ LET call == calls[t]
         ctx == contexts[call.ctx].context
         r == register_with_engine(engine[ctx], call.name, call.handler,
                                   call.exists)
     IN /\ engine' = [engine EXCEPT ![ctx] = r.eng]
        /\ regLog' = Append(regLog, [ctx |-> call.ctx, name |-> call.name,
                                     ret |-> r.ret, start |-> call.start])
        /\ last' = CtxSnapshot("register_return", call.ctx, call.name, None,
                                r.ret, "-")
  /\ calls' = [calls EXCEPT ![t] = Idle]
  /\ UNCHANGED <<contexts, protocols, panicked, loaderVars, app, win>>

RaceNext ==
  \/ \E t \in Callers, c \in Contexts, n \in Names : register_insert(t, c, n)
  \/ \E t \in Callers : register_return(t)

RaceSpec == CtxInit /\ [][RaceNext]_vars

\* ---------------------------------------------------------- overlapping flush
\* queue_load_uri and flush_queue_loader calls of two callers that overlap.
\* The steps of a flush are its atomic operations: the swap of is_locked,
\* the pop under the queue's mutex, then the connect and load_uri of the
\* popped request, or the return when nothing was popped.
Flushing == {t \in Callers : calls[t].pc \in {"claimed", "popped", "empty"}}

RaceRecord(op, t, webview, ret, call) ==
  Record(op, webview, "-", "c1", t, None, ret, call)

\* Caller t calls queue_load_uri; it calls flush_queue_loader next.
race_queue_load_uri(t, webview, url) ==
  /\ calls[t].pc = "idle"
  /\ Len(pushLog) < MaxRacePush
  /\ Install(push(State, webview, url))
  /\ pushLog' = Append(pushLog, <<webview, url>>)
  /\ calls' = [calls EXCEPT ![t] = [pc |-> "pushed"]]
  /\ last' = RaceRecord("queue_load_uri", t, webview, <<"-">>, "-")
  /\ UNCHANGED <<contexts, protocols, engine, regLog, panicked, other, app, win>>

\* Caller t enters flush: `if !self.is_locked()`. When the lock was held the
\* call returns; otherwise the call goes on, and keeps what it started from.
\* `raced` of a call in progress: another flush call has started meanwhile.
flush_is_locked(t) ==
  /\ calls[t].pc \in {"idle", "pushed"}
  /\ LET l == is_locked(State)
     IN /\ Install(l.st)
        /\ calls' = [x \in Callers |->
                       IF x = t
                       THEN IF l.ret
                            THEN Idle
                            ELSE [pc |-> "claimed", queue |-> queue,
                                  loadLog |-> loadLog, active |-> ActiveCount,
                                  raced |-> FALSE]
                       ELSE IF x \in Flushing
                            THEN [calls[x] EXCEPT !.raced = TRUE]
                            ELSE calls[x]]
        /\ last' = RaceRecord("flush_is_locked", t, "-", <<l.ret>>, "-")
  /\ UNCHANGED <<pushLog, contexts, protocols, engine, regLog, panicked,
                 other, app, win>>

\* `if let Some((webview, url)) = self.pop()`
flush_pop(t) ==
  /\ calls[t].pc = "claimed"
  /\ LET p == pop(State)
     IN /\ Install(p.st)
        /\ calls' = [calls EXCEPT ![t] =
                       IF p.ret = None
                       THEN [@ EXCEPT !.pc = "empty"]
                       ELSE [pc |-> "popped", queue |-> @.queue,
                             loadLog |-> @.loadLog, active |-> @.active,
                             raced |-> @.raced,
                             item |-> p.ret[1]]]
        /\ last' = RaceRecord("flush_pop", t, "-", p.ret, calls[t])
  /\ UNCHANGED <<pushLog, contexts, protocols, engine, regLog, panicked,
                 other, app, win>>

\* webview.connect_load_changed(..); webview.load_uri(..); return
flush_dispatch(t) ==
  /\ calls[t].pc = "popped"
  /\ LET webview == calls[t].item[1]
         url == calls[t].item[2]
     IN /\ Install(load_uri(connect_load_changed(State, webview), webview, url))
        /\ last' = RaceRecord("flush_dispatch", t, webview, <<"-">>, calls[t])
  /\ calls' = [calls EXCEPT ![t] = Idle]
  /\ UNCHANGED <<pushLog, contexts, protocols, engine, regLog, panicked,
                 other, app, win>>

\* The pop returned None: flush returns; there is no else branch.
flush_return(t) ==
  /\ calls[t].pc = "empty"
  /\ calls' = [calls EXCEPT ![t] = Idle]
  /\ last' = RaceRecord("flush_return", t, "-", <<"-">>, calls[t])
  /\ UNCHANGED <<lock, queue, handlers, pending, loadLog, pushLog, contexts,
                 protocols, engine, regLog, panicked, other, app, win>>

FlushRaceNext ==
  \/ \E t \in Callers, w \in Webviews : race_queue_load_uri(t, w, "a")
  \/ \E t \in Callers : flush_is_locked(t)
  \/ \E t \in Callers : flush_pop(t)
  \/ \E t \in Callers : flush_dispatch(t)
  \/ \E t \in Callers : flush_return(t)
  \/ \E w \in Webviews : load_changed(w, "Finished")

FlushRaceSpec == Init /\ [][FlushRaceNext]_vars

\* ---------------------------------------------------------------- automation
\* WebContext::set_allows_automation on context c.
set_allows_automation(c, flag) ==
  /\ LET ctx == contexts[c].context
         r == WebContextImpl_set_allows_automation(contexts[c], engine[ctx], flag)
     IN /\ contexts' = [contexts EXCEPT ![c] = r.cx]
        /\ engine' = [engine EXCEPT ![ctx] = r.eng]
  /\ last' = CtxSnapshot("set_allows_automation", c, "-", None, <<flag>>, "-")
  /\ UNCHANGED <<protocols, regLog, panicked, calls, loaderVars, app, win>>

\* A remote automation client starts a session on the engine context of c,
\* which allows automation: the engine emits automation-started.
automation_started(c) ==
  /\ engine[contexts[c].context].automation_allowed
  /\ engine[contexts[c].context].sessions < MaxSessions
  /\ engine' = [engine EXCEPT ![contexts[c].context] =
                                automation_started_closure(@)]
  /\ last' = CtxSnapshot("automation_started", c, "-", None, <<"-">>, "-")
  /\ UNCHANGED <<contexts, protocols, regLog, panicked, calls, loaderVars, app, win>>

\* The client of a session of c asks for a new browsing context: the engine
\* emits create-web-view on the session.
create_web_view(c) ==
  /\ engine[contexts[c].context].sessions > 0
  /\ panicked' = create_web_view_closure_panics
  /\ last' = CtxSnapshot("create_web_view", c, "-", None, <<"-">>, "-")
  /\ UNCHANGED <<contexts, protocols, engine, regLog, calls, loaderVars, app, win>>

\* Every core operation and engine callback, until a panic ends the process.
Running == ~panicked
AutoNext ==
  \/ \E c \in Contexts, flag \in BOOLEAN :
       Running /\ set_allows_automation(c, flag)
  \/ \E c \in Contexts : Running /\ automation_started(c)
  \/ \E c \in Contexts : Running /\ create_web_view(c)
  \/ \E n \in Names : Running /\ register_uri_scheme("c1", n)
  \/ \E n \in Names, r \in HandlerResults :
       Running /\ uri_scheme_request("c1", n, Some(<<n, "index">>), r)
  \/ \E w \in Webviews :
       Running /\ Len(pushLog) < MaxCtxPush /\ queue_load_uri(w, "a")
  \/ Running /\ flush_queue_loader
  \/ \E w \in Webviews : Running /\ load_changed(w, "Finished")

AutoSpec == Init /\ [][AutoNext]_vars

\* ----------------------------------------------------------- window builder
WinInit ==
  /\ lock = FALSE
  /\ queue = <<>>
  /\ handlers = [w \in Webviews |-> <<>>]
  /\ pending = [w \in Webviews |-> 0]
  /\ loadLog = <<>>
  /\ pushLog = <<>>
  /\ contexts = [c \in Contexts |-> WebContextImpl_new(c)]
  /\ protocols = [c \in Contexts |-> NewProtocols]
  /\ engine = [c \in Contexts |-> NewEngine(TRUE)]
  /\ regLog = <<>>
  /\ panicked = FALSE
  /\ calls = [t \in Callers |-> Idle]
  /\ other = NewLoader
  /\ app \in {NewApp(p) : p \in Platforms}
  /\ win = NewWindow("gtk", 1, 1, FALSE, DefaultGdkWindow)
  /\ last = Snapshot("new", "-", "-")

WinStep(op, a) ==
  /\ app' = a
  /\ last' = Record(op, "-", "-", "c1", "-", None, <<"-">>, "-")
  /\ UNCHANGED <<loaderVars, ctxVars, win>>

\* WindowBuilder::new()
new_builder ==
  /\ WinStep("WindowBuilder::new",
             [app EXCEPT !.builder = Some(WindowBuilder_new)])

\* A setter of the WindowBuilder in hand; `b` is the builder it returns.
builder_setter(b) ==
  /\ app.builder # None
  /\ WinStep("WindowBuilder::with", [app EXCEPT !.builder = Some(b)])

\* WindowBuilder::build: Window::new(window_target, self.window); the
\* builder is consumed.
build ==
  /\ app.builder # None
  /\ Len(app.created) < MaxWindows
  /\ WinStep("WindowBuilder::build",
             [Window_new(app, app.builder[1].window) EXCEPT !.builder = None])

WinNext ==
  \/ new_builder
  \/ \E z \in Sizes : builder_setter(with_inner_size(app.builder[1], z))
  \/ \E z \in Sizes : builder_setter(with_min_inner_size(app.builder[1], z))
  \/ \E z \in Sizes : builder_setter(with_max_inner_size(app.builder[1], z))
  \/ \E v \in BOOLEAN : builder_setter(with_resizable(app.builder[1], v))
  \/ \E t \in Titles : builder_setter(with_title(app.builder[1], t))
  \/ \E f \in {None} \cup {Some(x) : x \in Fullscreens} :
       builder_setter(with_fullscreen(app.builder[1], f))
  \/ \E v \in BOOLEAN : builder_setter(with_maximized(app.builder[1], v))
  \/ \E v \in BOOLEAN : builder_setter(with_visible(app.builder[1], v))
  \/ \E v \in BOOLEAN : builder_setter(with_transparent(app.builder[1], v))
  \/ \E v \in BOOLEAN : builder_setter(with_decorations(app.builder[1], v))
  \/ \E v \in BOOLEAN : builder_setter(with_always_on_top(app.builder[1], v))
  \/ \E i \in {None} \cup {Some(x) : x \in Icons} :
       builder_setter(with_window_icon(app.builder[1], i))
  \/ build

WinSpec == WinInit /\ [][WinNext]_vars

\* ---------------------------------------------------------- window methods
\* A Window of either implementation, with the id Window::new gave it, on a
\* display of either scale factor; the macOS Window starts with
\* maximized = !window.is_miniaturized(), and a new window is not
\* miniaturized.
WindowInit ==
  /\ lock = FALSE
  /\ queue = <<>>
  /\ handlers = [w \in Webviews |-> <<>>]
  /\ pending = [w \in Webviews |-> 0]
  /\ loadLog = <<>>
  /\ pushLog = <<>>
  /\ contexts = [c \in Contexts |-> WebContextImpl_new(c)]
  /\ protocols = [c \in Contexts |-> NewProtocols]
  /\ engine = [c \in Contexts |-> NewEngine(TRUE)]
  /\ regLog = <<>>
  /\ panicked = FALSE
  /\ calls = [t \in Callers |-> Idle]
  /\ other = NewLoader
  /\ app = NewApp("gtk")
  /\ win \in {NewWindow("gtk", 1, f, FALSE, DefaultGdkWindow) : f \in ScaleFactors}
             \cup {NewWindow("macos", 0, f, TRUE, DefaultGdkWindow) :
                     f \in ScaleFactors}
  /\ last = Snapshot("new", "-", "-")

\* A call of a Window method with argument `arg`: `result` is what it
\* returned, or Panic; `w` is the Window after the call.
WindowCall(op, arg, result, w) ==
  /\ ~panicked
  /\ panicked' = result.panic
  /\ win' = w
  /\ last' = Record(op, "-", "-", "c1", arg, None, result, win)
  /\ UNCHANGED <<loaderVars, contexts, protocols, engine, regLog, calls, app>>

\* A setter: `r` is the Window after it, or Panic.
setter(op, arg, r) ==
  /\ Len(win.requests) < MaxRequests
  /\ WindowCall(op, arg, IF r.panic THEN Panic ELSE Return("-"),
                IF r.panic THEN win ELSE r.value)

\* A getter
getter(op, ret) == WindowCall(op, "-", ret, win)

\* The event loop, and with it the receiver of the requests, is dropped.
drop_receiver ==
  /\ win.receiver
  /\ WindowCall("drop_receiver", "-", Return("-"),
                [win EXCEPT !.receiver = FALSE])

WindowNext ==
  \/ \E p \in PositionArgs :
       setter("set_outer_position", p, Window_set_outer_position(win, p))
  \/ \E z \in SizeArgs :
       setter("set_inner_size", z, Window_set_inner_size(win, z))
  \/ \E z \in {None, Some(Logical(4, 2))} :
       setter("set_min_inner_size", z, Window_set_min_inner_size(win, z))
  \/ \E z \in {None, Some(Logical(4, 2))} :
       setter("set_max_inner_size", z, Window_set_max_inner_size(win, z))
  \/ setter("set_title", "Hello World", Window_set_title(win, "Hello World"))
  \/ setter("set_visible", FALSE, Window_set_visible(win, FALSE))
  \/ setter("set_resizable", FALSE, Window_set_resizable(win, FALSE))
  \/ setter("set_minimized", TRUE, Window_set_minimized(win, TRUE))
  \/ \E m \in BOOLEAN :
       setter("set_maximized", m, Window_set_maximized(win, m))
  \/ setter("drag_window", "-", Window_drag_window(win))
  \/ \E f \in {None} \cup {Some(x) : x \in Fullscreens} :
       setter("set_fullscreen", f, Window_set_fullscreen(win, f))
  \/ setter("set_decorations", FALSE, Window_set_decorations(win, FALSE))
  \/ setter("set_always_on_top", TRUE, Window_set_always_on_top(win, TRUE))
  \/ setter("set_window_icon", None, Window_set_window_icon(win, None))
  \/ \E a \in {Some(x) : x \in AttentionTypes} :
       setter("request_user_attention", a,
              Window_request_user_attention(win, a))
  \/ getter("outer_position", outer_position(win))
  \/ getter("inner_size", inner_size(win))
  \/ getter("is_maximized", is_maximized(win))
  \/ drop_receiver

WindowSpec == WindowInit /\ [][WindowNext]_vars

\* ------------------------------------------------------------ pointer events
\* Positions and sizes of the gdk window of an undecorated, resizable Window;
\* some are narrower or shorter than two borders.
GdkLefts == {3}
GdkTops == {0}
GdkWidths == {4, 8, 11}
GdkHeights == {3, 11}
Buttons == {1, 3}

HitInit ==
  /\ lock = FALSE
  /\ queue = <<>>
  /\ handlers = [w \in Webviews |-> <<>>]
  /\ pending = [w \in Webviews |-> 0]
  /\ loadLog = <<>>
  /\ pushLog = <<>>
  /\ contexts = [c \in Contexts |-> WebContextImpl_new(c)]
  /\ protocols = [c \in Contexts |-> NewProtocols]
  /\ engine = [c \in Contexts |-> NewEngine(TRUE)]
  /\ regLog = <<>>
  /\ panicked = FALSE
  /\ calls = [t \in Callers |-> Idle]
  /\ other = NewLoader
  /\ app = NewApp("gtk")
  /\ win \in {NewWindow("gtk", 1, 1, FALSE,
                         [left |-> l, top |-> t, width |-> w, height |-> h]) :
                 l \in GdkLefts, t \in GdkTops, w \in GdkWidths,
                 h \in GdkHeights}
  /\ last = Snapshot("new", "-", "-")

\* The root coordinates of a pointer over the gdk window
CursorXs == win.gdk.left .. (win.gdk.left + win.gdk.width - 1)
CursorYs == win.gdk.top .. (win.gdk.top + win.gdk.height - 1)

\* While a resize drag is in progress the window manager holds the pointer
\* grab, so the widget receives no pointer events until the drag ends.
PointerEvent(op, button, cx, cy, w) ==
  /\ win.resize_drag = None
  /\ win' = w
  /\ last' = Record(op, "-", "-", "c1", <<button, cx, cy>>, None,
                    <<hit_test(win, cx, cy).edge>>, win)
  /\ UNCHANGED <<loaderVars, ctxVars, app>>

\* The pointer moves over the window.
motion_notify(cx, cy) ==
  PointerEvent("motion_notify", 0, cx, cy, motion_notify_closure(win, cx, cy))

\* A button is pressed over the window.
button_press(button, cx, cy) ==
  PointerEvent("button_press", button, cx, cy,
               button_press_closure(win, button, cx, cy))

\* The resize drag ends (the button is released).
end_resize_drag ==
  /\ win.resize_drag # None
  /\ win' = [win EXCEPT !.resize_drag = None]
  /\ last' = Record("end_resize_drag", "-", "-", "c1", "-", None, <<"-">>, win)
  /\ UNCHANGED <<loaderVars, ctxVars, app>>

HitNext ==
  \/ \E cx \in CursorXs, cy \in CursorYs : motion_notify(cx, cy)
  \/ \E b \in Buttons, cx \in CursorXs, cy \in CursorYs :
       button_press(b, cx, cy)
  \/ end_resize_drag

HitSpec == HitInit /\ [][HitNext]_vars

\* ------------------------------------------------------------------ claims
IsFlush == last.op = "flush_queue_loader"
IsFinished == last.op = "load_changed" /\ last.event = "Finished"
IsPrefix(s, t) == Len(s) <= Len(t) /\ SubSeq(t, 1, Len(s)) = s

\* C1: single-flight -- at most one dispatched navigation (load_uri issued,
\* its Finished event not yet received) exists at any instant, also when
\* requests name the same webview more than once.
C1_SingleFlight == ActiveCount <= 1

\* C2: FIFO dispatch -- the load_uri calls are issued in exactly the order of
\* the queue_load_uri calls: the sequence of dispatched requests is always a
\* prefix of the sequence of enqueued requests.
C2_FifoDispatch == IsPrefix(loadLog, pushLog)

C2_Witness ==
  /\ Len(loadLog) >= 2
  /\ loadLog[1] # loadLog[2]
  /\ queue # <<>>

\* C3: immediate start when idle -- from a state with no active navigation
\* and an empty queue, queue_load_uri followed by flush_queue_loader
\* dispatches the request before flush returns. (The state after the
\* queue_load_uri has that one request queued and still nothing active.)
C3_ImmediateStartWhenIdle ==
  [][(/\ last.op = "queue_load_uri"
      /\ last.queue = <<>>
      /\ ActiveCount = 0
      /\ last'.op = "flush_queue_loader")
     => (/\ Len(loadLog') = Len(loadLog) + 1
         /\ loadLog'[Len(loadLog')] = queue[1])]_vars

\* C4: drain on completion -- when the Finished event of an active request
\* is handled while the queue is non-empty, the head of the queue is
\* dispatched as part of handling that event, with no flush_queue_loader
\* call.
C4_DrainOnCompletion ==
  (IsFinished /\ last.queue # <<>>)
    => (/\ Len(loadLog) > last.loads
        /\ loadLog[last.loads + 1] = Head(last.queue))

C4_Witness ==
  /\ IsFinished
  /\ Len(last.queue) >= 2
  /\ last.active = 1
  /\ Len(loadLog) = last.loads + 1

\* C5: return to Idle -- after the completion of the last outstanding
\* request fires with an empty queue, the lock is free and the queue empty.
C5_ReturnToIdle ==
  (IsFinished /\ last.queue = <<>> /\ last.active = 1)
    => (~lock /\ queue = <<>>)

\* C6: no starvation -- when every navigation finishes and flush keeps being
\* called, every enqueued request is eventually dispatched.
C6_NoStarvation ==
  \A i \in 1..MaxPush : (Len(pushLog) >= i) ~> (Len(loadLog) >= i)

\* C7: one-shot completion -- the closure connected for a dispatched request
\* releases the lock and re-invokes flush at most once.
C7_OneShotCompletion ==
  \A w \in Webviews : \A i \in 1..Len(handlers[w]) : handlers[w][i] <= 1

\* C8: lock/active consistency -- between operations the lock is held if and
\* only if a dispatched request is awaiting completion.
C8_LockActiveConsistency == lock <=> (ActiveCount >= 1)

\* C9: idempotent flush -- flush on an Idle serializer with an empty queue
\* dispatches nothing and leaves the lock free and the queue empty.
C9_IdempotentFlush ==
  (IsFlush /\ ~last.lock /\ last.queue = <<>>)
    => (~lock /\ queue = <<>> /\ Len(loadLog) = last.loads)

\* C10: flush while Active is a no-op -- when the lock is already held,
\* flush dispatches nothing, leaves the queue as it was and the lock held.
C10_FlushWhileLockedIsNoOp ==
  (IsFlush /\ last.lock)
    => (/\ lock
        /\ queue = last.queue
        /\ Len(loadLog) = last.loads
        /\ ActiveCount = last.active)

C10_Witness ==
  /\ IsFlush
  /\ last.lock
  /\ last.active = 1
  /\ Len(last.queue) >= 2

\* C11: enqueue only appends -- queue_load_uri is accepted in every state,
\* appends exactly the given (webview, url) pair at the tail of the queue,
\* leaves the earlier entries and the lock as they were and dispatches
\* nothing.
C11_EnqueueOnlyAppends ==
  (last.op = "queue_load_uri")
    => (/\ queue = Append(last.queue, pushLog[Len(pushLog)])
        /\ pushLog[Len(pushLog)][1] = last.webview
        /\ lock = last.lock
        /\ Len(loadLog) = last.loads
        /\ ActiveCount = last.active)

C11_Witness ==
  /\ last.op = "queue_load_uri"
  /\ last.lock
  /\ last.active = 1
  /\ Len(last.queue) >= 1
  /\ queue[Len(queue)] # queue[1]

\* C12: consumed exactly once -- every enqueued request is either still in
\* the queue or was dispatched exactly once: the dispatched requests followed
\* by the queued ones are exactly the enqueued ones, so none is dispatched
\* twice, none leaves the queue undispatched and none is both dispatched and
\* queued.
C12_ConsumedExactlyOnce == pushLog = loadLog \o queue

C12_Witness ==
  /\ Len(loadLog) >= 2
  /\ Len(queue) >= 1
  /\ ActiveCount >= 1

IsRegister == last.op = "register_uri_scheme"
IsRequest == last.op = "uri_scheme_request"

\* The i-th register_uri_scheme call is the first one for its name on its
\* context.
FirstRegistration(i) ==
  \A j \in 1..(i - 1) :
    ~(regLog[j].ctx = regLog[i].ctx /\ regLog[j].name = regLog[i].name)

HasManager(c) == engine[contexts[c].context].security_manager

C14_RejectedDuplicateMutatesNothing ==
  (IsRegister /\ last.ret = DuplicateCustomProtocol(last.name))
    => (/\ protocols = last.protocols
        /\ engine = last.engine
        /\ queue = last.queue
        /\ lock = last.lock
        /\ Len(loadLog) = last.loads
        /\ ActiveCount = last.active)

C14_Witness ==
  /\ IsRegister
  /\ last.ret = DuplicateCustomProtocol(last.name)
  /\ engine[last.ctx].uri_schemes[last.name] # <<>>
  /\ lock

RegisteredElsewhere(i) ==
  \E j \in 1..(i - 1) :
    regLog[j].name = regLog[i].name /\ regLog[j].ctx # regLog[i].ctx

C20_RegistrationPermanent ==
  /\ \A c \in Contexts : last.protocols[c] \subseteq protocols[c]
  /\ \A i \in 1..Len(regLog) :
       regLog[i].name \in protocols[contexts[regLog[i].ctx].registered_protocols]

C20_Witness ==
  /\ IsRegister
  /\ last.ret = Ok
  /\ last.protocols[last.ctx] # {}
  /\ protocols[last.ctx] # last.protocols[last.ctx]

\* C16: no panic in the core -- no sequence of core operations and engine
\* callbacks on a WebContext (register_uri_scheme, queue_load_uri, flush,
\* load-finished and protocol-request callbacks, automation-session
\* callbacks after set_allows_automation(true)) reaches a panic.
C16_NoPanic == ~panicked

\* The i-th and the j-th returned register_uri_scheme calls overlapped: the
\* j-th had started when the i-th returned.
Overlapped(i, j) == i < j /\ regLog[j].start < i

\* The i-th and j-th returned calls are two overlapping calls for one name on
\* one WebContext, and the first calls for that name there.
Raced(i, j) ==
  /\ Overlapped(i, j)
  /\ regLog[i].ctx = regLog[j].ctx
  /\ regLog[i].name = regLog[j].name
  /\ \A k \in 1..Len(regLog) :
       (k # i /\ k # j /\ regLog[k].ctx = regLog[i].ctx
          /\ regLog[k].name = regLog[i].name) => k > j

InstalledHandlers(c, n) == Len(engine[contexts[c].context].uri_schemes[n])

IsLoaderOp ==
  last.op \in {"queue_load_uri", "flush_queue_loader", "load_changed"}

\* C19: serializers are per context -- enqueue, flush and completion events
\* on one WebContext leave the lock and queue of every other WebContext
\* unchanged, so a flush on a context whose lock is free and whose queue is
\* not empty dispatches whatever navigation is active in another context.
C19_SerializersPerContext ==
  /\ (IsLoaderOp /\ last.ctx = "c1")
       => /\ other.lock = last.other.lock
          /\ other.queue = last.other.queue
  /\ (IsLoaderOp /\ last.ctx = "c2")
       => /\ lock = last.lock
          /\ queue = last.queue
  /\ (IsFlush /\ last.ctx = "c2" /\ ~last.other.lock
        /\ last.other.queue # <<>>)
       => other.loadLog = Append(last.other.loadLog, Head(last.other.queue))

C19_Witness ==
  /\ IsFlush
  /\ last.ctx = "c2"
  /\ last.lock
  /\ last.queue # <<>>
  /\ pending["w1"] > 0
  /\ ~last.other.lock
  /\ Len(other.loadLog) = 1
  /\ lock
  /\ queue # <<>>

IsSetAllowsAutomation == last.op = "set_allows_automation"

\* C21: allows_automation() returns false on a freshly created WebContext and
\* afterwards the flag most recently passed to set_allows_automation (the
\* call sets it, no other operation changes it); set_allows_automation
\* changes nothing else: the registry, the queue and the lock stay as they
\* were.
C21_AllowsAutomationIsLastFlag ==
  /\ last.op = "new" => \A c \in Contexts : ~allows_automation(contexts[c])
  /\ IsSetAllowsAutomation
       => /\ allows_automation(contexts[last.ctx]) = last.ret[1]
          /\ \A c \in Contexts \ {last.ctx} : contexts[c] = last.contexts[c]
          /\ protocols = last.protocols
          /\ queue = last.queue
          /\ lock = last.lock
          /\ other = last.other
  /\ (last.op # "new" /\ ~IsSetAllowsAutomation)
       => \A c \in Contexts :
            allows_automation(contexts[c]) = allows_automation(last.contexts[c])

C21_Witness ==
  /\ IsSetAllowsAutomation
  /\ last.ret[1] = FALSE
  /\ allows_automation(last.contexts[last.ctx])
  /\ protocols["c1"] # {}
  /\ lock
  /\ queue # <<>>

\* C22: at most one WebContext allows automation at a time -- in every
\* reachable state allows_automation() is true for at most one WebContext.
C22_AtMostOneAllowsAutomation ==
  Cardinality({c \in Contexts : allows_automation(contexts[c])}) <= 1

\* C23: WindowId is unique for each window -- any two distinct Window
\* instances created through Window::new have different ids, so the windows
\* set of the event loop target has one entry per window.
C23_WindowIdUnique ==
  /\ \A i, j \in 1..Len(app.created) :
       i # j => app.created[i].window_id # app.created[j].window_id
  /\ Cardinality(app.windows) = Len(app.created)

\* C24: WindowAttributes::default(), and so WindowBuilder::new(), yields the
\* documented defaults: inner_size, min_inner_size, max_inner_size,
\* fullscreen and window_icon are None; resizable, visible and decorations
\* are true; maximized, transparent and always_on_top are false; title is
\* "winit window".
C24_DocumentedDefaults ==
  last.op = "WindowBuilder::new"
    => /\ app.builder # None
       /\ LET w == app.builder[1].window
          IN /\ w.inner_size = None /\ w.min_inner_size = None
             /\ w.max_inner_size = None /\ w.fullscreen = None
             /\ w.window_icon = None
             /\ w.resizable /\ w.visible /\ w.decorations
             /\ ~w.maximized /\ ~w.transparent /\ ~w.always_on_top
             /\ w.title = "winit window"
             /\ DOMAIN w = {"inner_size", "min_inner_size", "max_inner_size",
                            "resizable", "fullscreen", "title", "maximized",
                            "visible", "transparent", "decorations",
                            "always_on_top", "window_icon"}

C24_Witness ==
  /\ last.op = "WindowBuilder::new"
  /\ Len(app.created) >= 1
  /\ app.created[1].title # "winit window"

\* A flush call in progress that claimed the lock of a serializer with no
\* active navigation and at least two queued requests.
ClaimedWithTwoQueued(call) == call.active = 0 /\ Len(call.queue) >= 2

\* C25: atomic claim -- when two flush calls race on a serializer whose lock
\* is free and whose queue holds at least two requests, exactly one of them
\* claims the lock and exactly one request, the head, is dispatched; the
\* other call returns without popping.
C25_AtomicClaim ==
  /\ \A t \in Flushing :
       ClaimedWithTwoQueued(calls[t]) => Flushing = {t} /\ lock
  /\ (last.op = "flush_is_locked" /\ last.ret = <<TRUE>>)
       => /\ queue = last.queue
          /\ Len(loadLog) = last.loads
          /\ calls[last.name] = Idle
  /\ (last.op = "flush_dispatch" /\ ClaimedWithTwoQueued(last.response)
        /\ last.response.raced)
       => /\ loadLog = Append(last.response.loadLog,
                              Head(last.response.queue))
          /\ IsPrefix(Tail(last.response.queue), queue)

C25_Witness ==
  /\ last.op = "flush_dispatch"
  /\ ClaimedWithTwoQueued(last.response)
  /\ last.response.raced
  /\ Len(loadLog) = 1
  /\ Len(queue) = 1
  /\ lock

\* C26: no stranded request after a race -- when an enqueue-then-flush pair
\* of one caller interleaves with a flush call of another that found the
\* queue empty, then once both calls have returned the enqueued request is
\* dispatched or a pending completion will dispatch it: the state "queue not
\* empty, no active request, no flush in progress" is not reached.
C26_NoStrandedRequest ==
  (last.op = "flush_return" /\ \A t \in Callers : calls[t] = Idle)
    => ~(queue # <<>> /\ ActiveCount = 0)

\* C27: one event, at most one dispatch -- a single Finished load event
\* delivered by a webview causes at most one queued request to be
\* dispatched, also when the serializer has dispatched that webview more
\* than once before.
C27_OneEventOneDispatch ==
  IsFinished => Len(loadLog) <= last.loads + 1

IsOtherLoadEvent == last.op = "load_changed" /\ last.event # "Finished"

\* C28: only the terminal event releases the lock -- while a dispatched
\* request awaits completion, a load event other than Finished (started,
\* redirected, committed) neither releases the lock nor triggers a flush:
\* lock, queue and dispatches stay as they were, and the lock is released
\* only in the handling of a Finished event.
C28_OnlyFinishedReleases ==
  /\ IsOtherLoadEvent
       => /\ lock = last.lock
          /\ queue = last.queue
          /\ Len(loadLog) = last.loads
          /\ ActiveCount = last.active
  /\ (last.lock /\ ~lock) => IsFinished

C28_Witness ==
  /\ IsOtherLoadEvent
  /\ last.event = "Committed"
  /\ last.lock
  /\ last.active = 1
  /\ last.queue # <<>>

\* C29: a failed registration leaves no trace -- when register_uri_scheme
\* returns an error other than DuplicateCustomProtocol (MissingManager), the
\* scheme is not recorded as registered: a name is in the registered set of
\* a WebContext only if its handler was installed, and no call is rejected
\* as a duplicate of a call that failed.
C29_FailedRegistrationLeavesNoTrace ==
  /\ \A c \in Contexts, n \in Names :
       n \in protocols[contexts[c].registered_protocols]
         => InstalledHandlers(c, n) >= 1
  /\ \A i \in 1..Len(regLog) :
       regLog[i].ret = DuplicateCustomProtocol(regLog[i].name)
         => \E j \in 1..(i - 1) :
              /\ regLog[j].ctx = regLog[i].ctx
              /\ regLog[j].name = regLog[i].name
              /\ regLog[j].ret = Ok

\* C30: successful handler response -- when a registered handler returns
\* Ok((bytes, mime)) for a request that carries a uri, the handler has been
\* called once, with that uri, and the request is finished with exactly
\* those bytes, a length equal to their count and that mime type, whatever
\* the state of the lock, which the request leaves alone.
C30_SuccessfulResponse ==
  (IsRequest /\ last.uri # None /\ last.ret[1] = "Ok")
    => (/\ last.response.call = "finish"
        /\ last.response.stream = last.ret[2]
        /\ last.response.length = Len(last.ret[2])
        /\ last.response.mime = Some(last.ret[3])
        /\ last.response.error = None
        /\ last.response.handler_calls = <<last.uri[1]>>
        /\ lock = last.lock
        /\ queue = last.queue)

C30_Witness ==
  /\ IsRequest
  /\ last.uri # None
  /\ last.ret = <<"Ok", <<104, 105>>, "text/html">>
  /\ last.response.length = 2
  /\ last.lock

IsFailedRequest ==
  IsRequest /\ (last.uri = None \/ last.ret[1] = "Err")

\* C31: a failing protocol request is contained -- after a handler returns
\* an error, or the request carries no uri, the registered-scheme set, the
\* installed handlers, the load queue and the lock are as they were, and
\* the handler stays installed for later requests of that scheme.
C31_FailingRequestContained ==
  IsFailedRequest
    => (/\ protocols = last.protocols
        /\ engine = last.engine
        /\ queue = last.queue
        /\ lock = last.lock
        /\ ~panicked
        /\ InstalledHandlers(last.ctx, last.name) = 1)

C31_Witness ==
  /\ IsFailedRequest
  /\ last.ret = <<"Err", "No such file">>
  /\ last.response.call = "finish_error"
  /\ InstalledHandlers(last.ctx, last.name) = 1
  /\ lock

\* The physical size that the Size argument s stands for on a display of
\* scale factor f.
PhysicalSizeOf(s, f) ==
  IF s[1] = "Physical" THEN s[2] ELSE <<s[2][1] * f, s[2][2] * f>>

\* C32: cached geometry is read-your-writes in both Window implementations
\* -- after set_outer_position(p), outer_position() and inner_position()
\* return p in physical pixels, and after set_inner_size(s), inner_size()
\* and outer_size() return the physical size corresponding to s.
C32_GeometryReadYourWrites ==
  /\ last.op = "set_outer_position"
       => /\ outer_position(win) = Return(to_physical(last.name, win.scale_factor))
          /\ inner_position(win) = Return(to_physical(last.name, win.scale_factor))
  /\ last.op = "set_inner_size"
       => /\ inner_size(win) = Return(PhysicalSizeOf(last.name, win.scale_factor))
          /\ outer_size(win) = Return(PhysicalSizeOf(last.name, win.scale_factor))

\* C33: set_maximized(m) followed by is_maximized() returns m, and neither
\* call panics: the store and the load on the cached maximized flag use
\* orderings that exist for a store and for a load.
C33_MaximizedReadYourWrites ==
  /\ last.op = "set_maximized"
       => /\ ~last.ret.panic
          /\ is_maximized(win) = Return(last.name)
  /\ last.op = "is_maximized" => ~last.ret.panic

\* The WindowRequest each setter sends.
RequestOf ==
  [set_title |-> "Title", set_visible |-> "Visible",
   set_resizable |-> "Resizable", set_minimized |-> "Minimized",
   set_maximized |-> "Maximized", set_fullscreen |-> "Fullscreen",
   set_decorations |-> "Decorations", set_always_on_top |-> "AlwaysOnTop",
   set_window_icon |-> "WindowIcon", set_outer_position |-> "Position",
   set_inner_size |-> "Size", drag_window |-> "DragWindow",
   request_user_attention |-> "UserAttention"]

\* C34: every implemented Window setter sends exactly one
\* (window_id, WindowRequest) message with the window's own id, after the
\* messages sent before it, and returns normally, without a panic, also
\* when the receiver is gone.
C34_SetterSendsOneRequest ==
  last.op \in DOMAIN RequestOf
    => /\ ~last.ret.panic
       /\ ~panicked
       /\ last.response.receiver
            => /\ Len(win.requests) = Len(last.response.requests) + 1
               /\ SubSeq(win.requests, 1, Len(last.response.requests))
                    = last.response.requests
               /\ win.requests[Len(win.requests)][1] = win.window_id
               /\ win.requests[Len(win.requests)][2][1] = RequestOf[last.op]
       /\ ~last.response.receiver => win.requests = last.response.requests

\* The 5-pixel border zones of the gdk window g that contain (cx, cy).
Zones(g, cx, cy) ==
  {z \in {"left", "right", "top", "bottom"} :
     \/ z = "left" /\ cx - g.left < 5
     \/ z = "right" /\ (g.left + g.width) - cx <= 5
     \/ z = "top" /\ cy - g.top < 5
     \/ z = "bottom" /\ (g.top + g.height) - cy <= 5}

\* The compass edge of a set of zones, or the sentinel.
EdgeOf(zones) ==
  CASE zones = {"left"} -> <<"West">>
    [] zones = {"top"} -> <<"North">>
    [] zones = {"right"} -> <<"East">>
    [] zones = {"bottom"} -> <<"South">>
    [] zones = {"top", "left"} -> <<"NorthWest">>
    [] zones = {"top", "right"} -> <<"NorthEast">>
    [] zones = {"bottom", "left"} -> <<"SouthWest">>
    [] zones = {"bottom", "right"} -> <<"SouthEast">>
    [] OTHER -> <<"__Unknown", 8>>

IsPointerEvent == last.op \in {"motion_notify", "button_press"}

\* C35: hit_test over integer cursor and window coordinates returns the
\* compass edge that matches exactly the set of 5-pixel border zones
\* containing the cursor, and the sentinel __Unknown(8) for every other
\* combination (interior, or opposite zones at once in a window narrower or
\* shorter than 10 pixels), in which case no resize drag is started.
C35_HitTestEdges ==
  IsPointerEvent
    => LET g == last.response.gdk
           cx == last.name[2]
           cy == last.name[3]
           edge == last.ret[1]
       IN /\ edge = EdgeOf(Zones(g, cx, cy))
          /\ edge = <<"__Unknown", 8>>
               => win.resize_drag = last.response.resize_drag

C35_Witness ==
  /\ last.op = "button_press"
  /\ last.name[1] = 1
  /\ last.response.gdk.width = 8
  /\ Zones(last.response.gdk, last.name[2], last.name[3])
       = {"left", "right", "top"}
  /\ last.ret[1] = <<"__Unknown", 8>>
  /\ last.response.resize_drag = None
  /\ win.resize_drag = None

====
